---- MODULE Spec2Model ----
(***************************************************************************)
(* Model of the pair potential evaluator EvaluatorPairLJLow                *)
(* (src/EvaluatorPairLJLow.h): its parameter record param_type with the    *)
(* three constructors and asDict, and the evaluator with its constructor,  *)
(* setters, evalForceAndEnergy, the long range correction integrals and    *)
(* getShapeSpec.                                                           *)
(*                                                                         *)
(* ShortReal / Scalar values are modelled as exact rationals, extended     *)
(* with the IEEE specials NaN, +inf and -inf.  Rounding of the floating    *)
(* point formats is not modelled.                                          *)
(***************************************************************************)
EXTENDS Integers, FiniteSets, Sequences, TLC

\* ------------------------------------------------------------------------
\* Bounds of the model
\* ------------------------------------------------------------------------
\* rsq ranges over 1..MaxRsq (and 10)
MaxRsq == 2
\* sigma ranges over -1..MaxSigma
MaxSigma == 2
\* epsilon ranges over 0..MaxEpsilon
MaxEpsilon == 1

\* The evaluator instances alive at the same time (threads / SIMT lanes).
Evaluators == {"lane1", "lane2"}

\* ------------------------------------------------------------------------
\* Real arithmetic
\* ------------------------------------------------------------------------
\* A value is <<w, n, d>>, the number w + n/d with 0 <= n < d and n/d in
\* lowest terms, or one of NaN == <<0, 0, 0>>, +inf == <<1, 0, 0>> and
\* -inf == <<-1, 0, 0>>.
Abs(n) == IF n < 0 THEN -n ELSE n

Sgn(n) == IF n < 0 THEN -1 ELSE IF n > 0 THEN 1 ELSE 0

RECURSIVE GCD(_, _)
GCD(a, b) == IF b = 0 THEN a ELSE GCD(b, a % b)

NaN == <<0, 0, 0>>

Zero == <<0, 0, 1>>

R(k) == <<k, 0, 1>>

\* The number p/q, q > 0.
Frac(p, q) ==
    LET n == p % q
        g == GCD(n, q)
    IN  << p \div q, n \div g, q \div g >>

IsNaN(a) == a[3] = 0 /\ a[1] = 0

IsInf(a) == a[3] = 0 /\ a[1] # 0

IsZero(a) == a[3] # 0 /\ a[1] = 0 /\ a[2] = 0

\* -1, 0 or 1 for a value that is no NaN.
Sign(a) == IF a[3] = 0 THEN a[1] ELSE IF a[1] < 0 THEN -1 ELSE IF IsZero(a) THEN 0 ELSE 1

Neg(a) ==
    IF a[3] = 0 THEN << -a[1], 0, 0 >>
    ELSE IF a[2] = 0 THEN << -a[1], 0, 1 >>
    ELSE << -a[1] - 1, a[3] - a[2], a[3] >>

Add(a, b) ==
    IF IsNaN(a) \/ IsNaN(b) THEN NaN
    ELSE IF IsInf(a) THEN (IF IsInf(b) /\ a[1] # b[1] THEN NaN ELSE a)
    ELSE IF IsInf(b) THEN b
    ELSE IF a[2] = 0 THEN << a[1] + b[1], b[2], b[3] >>
    ELSE IF b[2] = 0 THEN << a[1] + b[1], a[2], a[3] >>
    ELSE LET g == GCD(a[3], b[3])
             l == (a[3] \div g) * b[3]
             f == Frac(a[2] * (b[3] \div g) + b[2] * (a[3] \div g), l)
         IN  << a[1] + b[1] + f[1], f[2], f[3] >>

Sub(a, b) == Add(a, Neg(b))

\* k * (n/d) for an integer k.
MulIF(k, n, d) ==
    IF k = 0 \/ n = 0 THEN Zero
    ELSE LET g == GCD(Abs(k), d)
         IN  Frac((k \div g) * n, d \div g)

\* k * b for an integer k and a finite b.
MulInt(k, b) == Add(R(k * b[1]), MulIF(k, b[2], b[3]))

\* (na/da) * (nb/db)
MulFF(na, da, nb, db) ==
    IF na = 0 \/ nb = 0 THEN Zero
    ELSE LET g1 == GCD(na, db)
             g2 == GCD(nb, da)
         IN  Frac((na \div g1) * (nb \div g2), (da \div g2) * (db \div g1))

Mul(a, b) ==
    IF IsNaN(a) \/ IsNaN(b) THEN NaN
    ELSE IF IsInf(a) \/ IsInf(b)
         THEN IF IsZero(a) \/ IsZero(b) THEN NaN ELSE << Sign(a) * Sign(b), 0, 0 >>
         ELSE IF a[2] = 0 THEN MulInt(a[1], b)
         ELSE IF b[2] = 0 THEN MulInt(b[1], a)
         ELSE Add(Add(MulInt(a[1], b), MulIF(b[1], a[2], a[3])),
                  MulFF(a[2], a[3], b[2], b[3]))

\* 1/b for a finite b # 0.
Recip(b) ==
    LET p == b[1] * b[3] + b[2]
    IN  IF p < 0 THEN Frac(-b[3], -p) ELSE Frac(b[3], p)

Div(a, b) ==
    IF IsNaN(a) \/ IsNaN(b) THEN NaN
    ELSE IF IsInf(b) THEN (IF IsInf(a) THEN NaN ELSE Zero)
    ELSE IF IsZero(b) THEN (IF IsZero(a) THEN NaN ELSE << Sign(a), 0, 0 >>)
    ELSE IF IsInf(a) THEN << Sign(a) * Sign(b), 0, 0 >>
    ELSE Mul(a, Recip(b))

\* a < b as the comparison of two floating point values (false on NaN).
Lt(a, b) ==
    IF IsNaN(a) \/ IsNaN(b) THEN FALSE
    ELSE IF IsInf(a) \/ IsInf(b)
         THEN (a # b) /\ (a = <<-1, 0, 0>> \/ b = <<1, 0, 0>>)
         ELSE a[1] < b[1] \/ (a[1] = b[1] /\ a[2] * b[3] < b[2] * a[3])

\* a != 0 as the comparison of a floating point value with zero (true on NaN).
NonZero(a) == ~IsZero(a)

\* pow(a, k) for a non-negative integer exponent k.
RECURSIVE Pow(_, _)
Pow(a, k) == IF k = 0 THEN R(1) ELSE Mul(a, Pow(a, k - 1))

RECURSIVE IPow(_, _)
IPow(m, k) == IF k = 0 THEN 1 ELSE m * IPow(m, k - 1)

\* The integer whose sixth power is m.
IRoot6(m) == CHOOSE k \in 0..m : IPow(k, 6) = m

\* pow(a, 1./6.): NaN on a negative base.
Root6(a) ==
    IF IsNaN(a) THEN NaN
    ELSE IF Lt(a, Zero) THEN NaN
    ELSE IF IsInf(a) THEN a
    ELSE Frac(IRoot6(a[1] * a[3] + a[2]), IRoot6(a[3]))

\* ------------------------------------------------------------------------
\* param_type
\* ------------------------------------------------------------------------
\* param_type() : lj1(0), lj2(0)
param_type_default == [lj1 |-> Zero, lj2 |-> Zero]

\* param_type(ShortReal sigma, ShortReal epsilon, bool managed)
param_type_values(sigma, epsilon) ==
    [lj1 |-> Mul(Mul(R(4), epsilon), Pow(sigma, 12)),
     lj2 |-> Mul(Mul(R(4), epsilon), Pow(sigma, 6))]

\* An entry of a pybind11::dict: absent, an object that does not convert to
\* a number, or a number.
Absent == [kind |-> "absent", num |-> Zero]

NonNumeric == [kind |-> "str", num |-> Zero]

Num(x) == [kind |-> "num", num |-> x]

\* v[key].cast<ShortReal>(): the item accessor raises KeyError on a missing
\* key, the cast raises cast_error on an object that is no number.
DictCast(x) ==
    IF x.kind = "absent" THEN [err |-> "KeyError", num |-> Zero]
    ELSE IF x.kind = "str" THEN [err |-> "cast_error", num |-> Zero]
    ELSE [err |-> "none", num |-> x.num]

\* A mutant of param_type_dict: a missing or non-numeric epsilon reads as 0.
param_type_dict_lenient(v) ==
    LET sigma == DictCast(v.sigma)
        epsilon == DictCast(v.epsilon)
    IN  IF sigma.err # "none"
        THEN [err |-> sigma.err, p |-> param_type_default]
        ELSE [err |-> "none",
              p |-> [lj1 |-> Mul(Mul(R(4), epsilon.num), Pow(sigma.num, 12)),
                     lj2 |-> Mul(Mul(R(4), epsilon.num), Pow(sigma.num, 6))]]

\* param_type(pybind11::dict v, bool managed): err # "none" when the
\* constructor throws; p is the record constructed otherwise.
param_type_dict(v) ==
    LET sigma == DictCast(v.sigma)
        epsilon == DictCast(v.epsilon)
    IN  IF sigma.err # "none"
        THEN [err |-> sigma.err, p |-> param_type_default]
        ELSE IF epsilon.err # "none"
        THEN [err |-> epsilon.err, p |-> param_type_default]
        ELSE [err |-> "none",
              p |-> [lj1 |-> Mul(Mul(R(4), epsilon.num), Pow(sigma.num, 12)),
                     lj2 |-> Mul(Mul(R(4), epsilon.num), Pow(sigma.num, 6))]]

\* A mutant of asDict: the factor 4 of epsilon is not divided out.
asDict_no4(p) ==
    LET sigma6 == Div(p.lj1, p.lj2)
    IN  [sigma |-> Root6(sigma6), epsilon |-> Div(p.lj2, sigma6)]

\* pybind11::dict asDict()
asDict(p) ==
    LET sigma6 == Div(p.lj1, p.lj2)
    IN  [sigma |-> Root6(sigma6), epsilon |-> Div(p.lj2, Mul(sigma6, R(4)))]

\* ------------------------------------------------------------------------
\* EvaluatorPairLJLow
\* ------------------------------------------------------------------------
\* The storage of an evaluator that is not constructed yet.
NoEvaluator == [built |-> FALSE, rsq |-> Zero, rcutsq |-> Zero, lj1 |-> Zero, lj2 |-> Zero]

\* EvaluatorPairLJLow(ShortReal _rsq, ShortReal _rcutsq, const param_type& _params)
EvaluatorPairLJLow(_rsq, _rcutsq, _params) ==
    [built |-> TRUE, rsq |-> _rsq, rcutsq |-> _rcutsq, lj1 |-> _params.lj1, lj2 |-> _params.lj2]

needsDiameter == FALSE

needsCharge == FALSE

\* A mutant of setDiameter: the diameters shift the stored separation.
setDiameter_stores(e, di, dj) == [e EXCEPT !.rsq = Sub(e.rsq, Mul(di, dj))]

\* void setDiameter(Scalar di, Scalar dj) { }
setDiameter(e, di, dj) == e

\* void setCharge(Scalar qi, Scalar qj) { }
setCharge(e, qi, qj) == e

\* A mutant of InRange: no cutoff test.
InRange_nocutoff(e) == NonZero(e.lj1)

\* A mutant of InRange: no test of lj1.
InRange_nolj1(e) == Lt(e.rsq, e.rcutsq)

\* A mutant of InRange: the cutoff itself is in range.
InRange_inclusive(e) == (Lt(e.rsq, e.rcutsq) \/ e.rsq = e.rcutsq) /\ NonZero(e.lj1)

\* if (rsq < rcutsq && lj1 != 0)
InRange(e) == Lt(e.rsq, e.rcutsq) /\ NonZero(e.lj1)

\* A mutant of ForceDivr: the factor r2inv is missing.
ForceDivr_nor2inv(e, r2inv, r6inv) ==
    Mul(r6inv, Sub(Mul(Mul(R(12), e.lj1), r6inv), Mul(R(6), e.lj2)))

\* force_divr = r2inv * r6inv * (ShortReal(12.0) * lj1 * r6inv - ShortReal(6.0) * lj2)
ForceDivr(e, r2inv, r6inv) ==
    Mul(Mul(r2inv, r6inv), Sub(Mul(Mul(R(12), e.lj1), r6inv), Mul(R(6), e.lj2)))

\* pair_eng = r6inv * (lj1 * r6inv - lj2)
PairEng(e, r6inv) == Mul(r6inv, Sub(Mul(e.lj1, r6inv), e.lj2))

\* A mutant of EnergyAtCutoff: the attractive term is dropped from the shift.
EnergyAtCutoff_repulsive(e) ==
    LET rcut2inv == Div(R(1), e.rcutsq)
        rcut6inv == Mul(Mul(rcut2inv, rcut2inv), rcut2inv)
    IN  Mul(rcut6inv, Mul(e.lj1, rcut6inv))

\* rcut6inv * (lj1 * rcut6inv - lj2), the amount taken off pair_eng
EnergyAtCutoff(e) ==
    LET rcut2inv == Div(R(1), e.rcutsq)
        rcut6inv == Mul(Mul(rcut2inv, rcut2inv), rcut2inv)
    IN  Mul(rcut6inv, Sub(Mul(e.lj1, rcut6inv), e.lj2))

\* bool evalForceAndEnergy(Scalar& force_divr, Scalar& pair_eng, bool energy_shift):
\* the returned flag and the two output arguments after the call.
evalForceAndEnergy(e, force_divr, pair_eng, energy_shift) ==
    IF InRange(e)
    THEN LET r2inv == Div(R(1), e.rsq)
             r6inv == Mul(Mul(r2inv, r2inv), r2inv)
         IN  [ret |-> TRUE,
              force_divr |-> ForceDivr(e, r2inv, r6inv),
              pair_eng |-> IF energy_shift
                           THEN Sub(PairEng(e, r6inv), EnergyAtCutoff(e))
                           ELSE PairEng(e, r6inv)]
    ELSE [ret |-> FALSE, force_divr |-> force_divr, pair_eng |-> pair_eng]

evalPressureLRCIntegral(e) == Zero

\* A mutant of evalEnergyLRCIntegral: a tail correction that grows with lj2.
evalEnergyLRCIntegral_tail(e) == Mul(e.lj2, R(-1))

evalEnergyLRCIntegral(e) == Zero

\* A mutant of getShapeSpec: an empty shape string is returned.
getShapeSpec_empty(e) == [err |-> "none", val |-> ""]

\* std::string getShapeSpec() const: throws std::runtime_error
getShapeSpec(e) == [err |-> "runtime_error", val |-> "no value"]

\* ------------------------------------------------------------------------
\* The state machine
\* ------------------------------------------------------------------------
VARIABLES
    cfg,     \* the arguments the parameter record was constructed from
    built,   \* how the parameter record came to be: "no", "default", "values", "failed"
    params,  \* the parameter record of the type pair, shared by the evaluators
    ev,      \* the evaluator instance of each lane
    out,     \* the caller's force_divr and pair_eng of each lane
    ret      \* the last call: its name, what it returned, what it threw

vars == << cfg, built, params, ev, out, ret >>

\* The separations: 1..MaxRsq, and the 10 beyond every cutoff.
RsqVals == { R(n) : n \in 1..MaxRsq } \cup { R(10) }

\* The cutoffs: 2, and the 9 of the documented scenario.
RcutsqVals == { R(2), R(9) }

SigmaVals == { R(n) : n \in (-1)..MaxSigma }

EpsilonVals == { R(n) : n \in 0..MaxEpsilon }

Dicts ==
    { [sigma |-> s, epsilon |-> e] :
        s \in {Absent, NonNumeric} \cup { Num(x) : x \in SigmaVals },
        e \in {Absent, NonNumeric} \cup { Num(x) : x \in EpsilonVals } }

\* What the caller's outputs hold before a call: zero, or something else.
SlotInit == { Zero, R(5) }

\* The diameters and charges handed to the setters.
AttrVals == { <<R(1), R(2)>> }

Returned(op, val) ==
    [op |-> op, lane |-> "none", shift |-> FALSE, val |-> val, err |-> "none"]

Threw(op, err) ==
    [op |-> op, lane |-> "none", shift |-> FALSE, val |-> "no value", err |-> err]

Init ==
    /\ cfg = [sigma |-> Absent, epsilon |-> Absent]
    /\ built = "no"
    /\ params = param_type_default
    /\ ev = [i \in Evaluators |-> NoEvaluator]
    /\ \E g \in SlotInit : out = [i \in Evaluators |-> [force_divr |-> g, pair_eng |-> g]]
    /\ ret = Returned("none", "no value")

ParamDefault ==
    /\ built = "no"
    /\ built' = "default"
    /\ params' = param_type_default
    /\ ret' = Returned("param_type()", "no value")
    /\ UNCHANGED << cfg, ev, out >>

ParamFromDict ==
    /\ built = "no"
    /\ \E v \in Dicts :
        \E r \in { param_type_dict(v) } :
            /\ cfg' = v
            /\ IF r.err = "none"
               THEN /\ built' = "values"
                    /\ params' = r.p
                    /\ ret' = Returned("param_type(dict)", "no value")
               ELSE /\ built' = "failed"
                    /\ params' = params
                    /\ ret' = Threw("param_type(dict)", r.err)
    /\ UNCHANGED << ev, out >>

ParamFromValues ==
    /\ built = "no"
    /\ \E sigma \in SigmaVals, epsilon \in EpsilonVals :
        /\ cfg' = [sigma |-> Num(sigma), epsilon |-> Num(epsilon)]
        /\ params' = param_type_values(sigma, epsilon)
    /\ built' = "values"
    /\ ret' = Returned("param_type(sigma, epsilon)", "no value")
    /\ UNCHANGED << ev, out >>

AsDict ==
    /\ built \in {"default", "values"}
    /\ ret' = Returned("asDict", asDict(params))
    /\ UNCHANGED << cfg, built, params, ev, out >>

Construct(i) ==
    /\ built \in {"default", "values"}
    /\ ~ev[i].built
    /\ \E _rsq \in RsqVals, _rcutsq \in RcutsqVals :
        ev' = [ev EXCEPT ![i] = EvaluatorPairLJLow(_rsq, _rcutsq, params)]
    /\ ret' = Returned("EvaluatorPairLJLow", "no value")
    /\ UNCHANGED << cfg, built, params, out >>

NeedsDiameter ==
    /\ ret' = Returned("needsDiameter", needsDiameter)
    /\ UNCHANGED << cfg, built, params, ev, out >>

NeedsCharge ==
    /\ ret' = Returned("needsCharge", needsCharge)
    /\ UNCHANGED << cfg, built, params, ev, out >>

SetDiameter(i) ==
    /\ ev[i].built
    /\ \E d \in AttrVals : ev' = [ev EXCEPT ![i] = setDiameter(ev[i], d[1], d[2])]
    /\ ret' = Returned("setDiameter", "no value")
    /\ UNCHANGED << cfg, built, params, out >>

SetCharge(i) ==
    /\ ev[i].built
    /\ \E q \in AttrVals : ev' = [ev EXCEPT ![i] = setCharge(ev[i], q[1], q[2])]
    /\ ret' = Returned("setCharge", "no value")
    /\ UNCHANGED << cfg, built, params, out >>

EvalForceAndEnergy(i) ==
    /\ ev[i].built
    /\ \E energy_shift \in BOOLEAN :
        \E r \in { evalForceAndEnergy(ev[i], out[i].force_divr, out[i].pair_eng, energy_shift) } :
            /\ out' = [out EXCEPT ![i] = [force_divr |-> r.force_divr, pair_eng |-> r.pair_eng]]
            /\ ret' = [op |-> "evalForceAndEnergy", lane |-> i, shift |-> energy_shift,
                       val |-> r.ret, err |-> "none"]
    /\ UNCHANGED << cfg, built, params, ev >>

EvalPressureLRCIntegral(i) ==
    /\ ev[i].built
    /\ ret' = Returned("evalPressureLRCIntegral", evalPressureLRCIntegral(ev[i]))
    /\ UNCHANGED << cfg, built, params, ev, out >>

EvalEnergyLRCIntegral(i) ==
    /\ ev[i].built
    /\ ret' = Returned("evalEnergyLRCIntegral", evalEnergyLRCIntegral(ev[i]))
    /\ UNCHANGED << cfg, built, params, ev, out >>

GetShapeSpec(i) ==
    /\ ev[i].built
    /\ \E r \in { getShapeSpec(ev[i]) } :
        ret' = [op |-> "getShapeSpec", lane |-> "none", shift |-> FALSE,
                val |-> r.val, err |-> r.err]
    /\ UNCHANGED << cfg, built, params, ev, out >>

Next ==
    \/ ParamDefault
    \/ ParamFromDict
    \/ ParamFromValues
    \/ AsDict
    \/ NeedsDiameter
    \/ NeedsCharge
    \/ \E i \in Evaluators : Construct(i)
    \/ \E i \in Evaluators : SetDiameter(i)
    \/ \E i \in Evaluators : SetCharge(i)
    \/ \E i \in Evaluators : EvalForceAndEnergy(i)
    \/ \E i \in Evaluators : EvalPressureLRCIntegral(i)
    \/ \E i \in Evaluators : EvalEnergyLRCIntegral(i)
    \/ \E i \in Evaluators : GetShapeSpec(i)

Spec == Init /\ [][Next]_vars

\* ------------------------------------------------------------------------
\* Properties
\* ------------------------------------------------------------------------
\* The last call was evalForceAndEnergy on the evaluator of lane i.
LastEval(i) == ret.op = "evalForceAndEnergy" /\ ret.lane = i

\* The step is a call of evalForceAndEnergy on the evaluator of lane i.
EvalStep(i) == ret'.op = "evalForceAndEnergy" /\ ret'.lane = i

Ge(a, b) == a = b \/ Lt(b, a)

\* C1: at or beyond the cutoff (rsq >= rcutsq) evalForceAndEnergy returns
\* false and leaves force_divr and pair_eng as the caller passed them,
\* whatever lj1, lj2 and energy_shift are; outputs the caller set to zero
\* stay zero.
C1_BeyondCutoffWritesNothing ==
    [][ \A i \in Evaluators :
          (EvalStep(i) /\ Ge(ev[i].rsq, ev[i].rcutsq))
             => (ret'.val = FALSE /\ out'[i] = out[i]) ]_vars

C1_Witness ==
    \E i \in Evaluators :
        /\ LastEval(i)
        /\ ev[i].rsq = R(10) /\ ev[i].rcutsq = R(9)
        /\ ev[i].lj1 = R(4) /\ ev[i].lj2 = R(4)
        /\ ret.val = FALSE
        /\ out[i] = [force_divr |-> Zero, pair_eng |-> Zero]

\* The coefficients lj2 the degenerate case is tried with.
Lj2Vals == { R(0), R(4), R(-4), R(256) }

\* C2: an evaluator with lj1 = 0 inside the cutoff (rsq < rcutsq) returns
\* false for either energy_shift and leaves force_divr and pair_eng
\* unwritten, whatever lj2 is.
C2_ZeroLj1WritesNothing ==
    /\ \A rsq \in RsqVals, rcutsq \in RcutsqVals, lj2 \in Lj2Vals, g \in SlotInit, sh \in BOOLEAN :
         Lt(rsq, rcutsq) =>
            evalForceAndEnergy(EvaluatorPairLJLow(rsq, rcutsq, [lj1 |-> Zero, lj2 |-> lj2]), g, g, sh)
               = [ret |-> FALSE, force_divr |-> g, pair_eng |-> g]
    /\ [][ \A i \in Evaluators :
             (EvalStep(i) /\ IsZero(ev[i].lj1) /\ Lt(ev[i].rsq, ev[i].rcutsq))
                => (ret'.val = FALSE /\ out'[i] = out[i]) ]_vars

C2_Witness ==
    \E i \in Evaluators :
        /\ LastEval(i)
        /\ built = "values" /\ cfg.sigma = Num(Zero) /\ cfg.epsilon = Num(R(1))
        /\ ev[i].lj1 = Zero /\ ev[i].lj2 = Zero
        /\ Lt(ev[i].rsq, ev[i].rcutsq)
        /\ ret.shift /\ ret.val = FALSE
        /\ out[i] = [force_divr |-> R(5), pair_eng |-> R(5)]

\* C3: inside the cutoff with lj1 # 0 and energy_shift = false,
\* evalForceAndEnergy returns true with
\* force_divr = r2inv*r6inv*(12*lj1*r6inv - 6*lj2) and
\* pair_eng = r6inv*(lj1*r6inv - lj2), r2inv = 1/rsq, r6inv = r2inv^3;
\* sigma = 1, epsilon = 1 gives lj1 = lj2 = 4, and rsq = 1, rcutsq = 9 then
\* gives force_divr = 24 and pair_eng = 0.
C3_UnshiftedForceAndEnergy ==
    /\ (built = "values" /\ cfg.sigma = Num(R(1)) /\ cfg.epsilon = Num(R(1)))
          => params = [lj1 |-> R(4), lj2 |-> R(4)]
    /\ \A i \in Evaluators :
         (LastEval(i) /\ ~ret.shift /\ Lt(ev[i].rsq, ev[i].rcutsq) /\ NonZero(ev[i].lj1)) =>
            LET r2inv == Div(R(1), ev[i].rsq)
                r6inv == Pow(r2inv, 3)
            IN  /\ ret.val = TRUE
                /\ out[i].force_divr
                     = Mul(Mul(r2inv, r6inv),
                           Sub(Mul(Mul(R(12), ev[i].lj1), r6inv), Mul(R(6), ev[i].lj2)))
                /\ out[i].pair_eng = Mul(r6inv, Sub(Mul(ev[i].lj1, r6inv), ev[i].lj2))
                /\ (ev[i].rsq = R(1) /\ ev[i].lj1 = R(4) /\ ev[i].lj2 = R(4))
                      => (out[i].force_divr = R(24) /\ out[i].pair_eng = Zero)

C3_Witness ==
    \E i \in Evaluators :
        /\ LastEval(i) /\ ~ret.shift /\ ret.val = TRUE
        /\ cfg.sigma = Num(R(1)) /\ cfg.epsilon = Num(R(1))
        /\ ev[i].rsq = R(1) /\ ev[i].rcutsq = R(9)
        /\ out[i] = [force_divr |-> R(24), pair_eng |-> Zero]

\* C4 as stated: with energy_shift = true, evalForceAndEnergy on an
\* evaluator exactly at the cutoff (rsq = rcutsq, lj1 # 0) yields a
\* pair_eng of 0.
C4_AsStated ==
    \A i \in Evaluators :
        (LastEval(i) /\ ret.shift /\ ev[i].rsq = ev[i].rcutsq /\ NonZero(ev[i].lj1))
           => out[i].pair_eng = Zero

\* C4 as amended: with energy_shift = true, evalForceAndEnergy on an
\* evaluator exactly at the cutoff (rsq = rcutsq, lj1 # 0) returns false
\* and leaves pair_eng as the caller passed it: the pair energy is 0 only
\* when the caller had set pair_eng to 0.
C4_AtCutoffEnergyUntouched ==
    [][ \A i \in Evaluators :
          (EvalStep(i) /\ ret'.shift /\ ev[i].rsq = ev[i].rcutsq /\ NonZero(ev[i].lj1))
             => (ret'.val = FALSE /\ out'[i].pair_eng = out[i].pair_eng) ]_vars

C4_Witness ==
    \E i \in Evaluators :
        /\ LastEval(i) /\ ret.shift /\ ret.val = FALSE
        /\ ev[i].rsq = R(2) /\ ev[i].rcutsq = R(2)
        /\ ev[i].lj1 = R(16384)
        /\ out[i].pair_eng = Zero

\* C5: the energy shift changes the energy only: two calls on the same
\* evaluator that differ in energy_shift alone return the same flag and
\* the same force_divr, and when valid
\* pair_eng(shift) = pair_eng(no shift) - rcut6inv*(lj1*rcut6inv - lj2)
\* with rcut6inv = (1/rcutsq)^3.
C5_ShiftChangesEnergyOnly ==
    [][ \A i \in Evaluators :
          (LastEval(i) /\ EvalStep(i) /\ ret'.shift # ret.shift) =>
             LET rcut6inv == Pow(Div(R(1), ev[i].rcutsq), 3)
                 shifted == IF ret'.shift THEN out'[i] ELSE out[i]
                 plain == IF ret'.shift THEN out[i] ELSE out'[i]
             IN  /\ ret'.val = ret.val
                 /\ out'[i].force_divr = out[i].force_divr
                 /\ ret.val =>
                      shifted.pair_eng
                        = Sub(plain.pair_eng,
                              Mul(rcut6inv, Sub(Mul(ev[i].lj1, rcut6inv), ev[i].lj2))) ]_vars

C5_Witness ==
    \E i \in Evaluators :
        /\ LastEval(i) /\ ret.shift /\ ret.val = TRUE
        /\ ev[i].rsq = R(2) /\ ev[i].rcutsq = R(9)
        /\ ev[i].lj1 = R(16384) /\ ev[i].lj2 = R(256)
        /\ out[i].force_divr = R(1440)
        /\ out[i].pair_eng = Add(R(224), Frac(170240, 531441))

\* C6 as stated: for every (sigma, epsilon) a param_type is constructed
\* from, asDict returns that sigma and that epsilon.
C6_AsStated ==
    (ret.op = "asDict" /\ built = "values")
       => (ret.val.sigma = cfg.sigma.num /\ ret.val.epsilon = cfg.epsilon.num)

\* C6 as amended: for every sigma > 0 and epsilon # 0 a param_type is
\* constructed from, asDict returns that sigma and that epsilon.
C6_RoundTripPositiveSigma ==
    (ret.op = "asDict" /\ built = "values"
        /\ Lt(Zero, cfg.sigma.num) /\ NonZero(cfg.epsilon.num))
       => (ret.val.sigma = cfg.sigma.num /\ ret.val.epsilon = cfg.epsilon.num)

C6_Witness ==
    /\ ret.op = "asDict" /\ built = "values"
    /\ cfg.sigma = Num(R(2)) /\ cfg.epsilon = Num(R(1))
    /\ params = [lj1 |-> R(16384), lj2 |-> R(256)]
    /\ ret.val = [sigma |-> R(2), epsilon |-> R(1)]

\* C7: the constructor from a mapping fails when sigma or epsilon is
\* absent or no number, and then no parameter record exists and no
\* evaluator is constructed from one; with both keys numeric it gives the
\* lj1, lj2 of the (sigma, epsilon) constructor.
C7_DictConstructor ==
    LET bad == cfg.sigma.kind # "num" \/ cfg.epsilon.kind # "num"
    IN  /\ ret.op = "param_type(dict)" => ((ret.err # "none") = bad)
        /\ ret.err \in {"KeyError", "cast_error"} => built = "failed"
        /\ built = "failed" => (bad /\ \A i \in Evaluators : ~ev[i].built)
        /\ built = "no" => cfg = [sigma |-> Absent, epsilon |-> Absent]
        /\ built = "values" =>
              (~bad /\ params = param_type_values(cfg.sigma.num, cfg.epsilon.num))

C7_Witness ==
    /\ built = "failed"
    /\ cfg.sigma = Num(R(1)) /\ cfg.epsilon = Absent
    /\ ret.op = "param_type(dict)" /\ ret.err = "KeyError"

\* C8: getShapeSpec always throws and returns no string, and leaves the
\* evaluators (rsq, rcutsq, lj1, lj2), the outputs and the parameter
\* record as they were.
C8_GetShapeSpecThrows ==
    [][ ret'.op = "getShapeSpec"
          => (ret'.err = "runtime_error" /\ ret'.val = "no value"
              /\ UNCHANGED << ev, out, params, cfg, built >>) ]_vars

C8_Witness ==
    /\ ret.op = "getShapeSpec" /\ ret.err = "runtime_error"
    /\ \A i \in Evaluators : ev[i].built /\ NonZero(ev[i].lj1)

\* C9: evalPressureLRCIntegral and evalEnergyLRCIntegral return 0 for every
\* evaluator, whatever was called before.
C9_LRCIntegralsZero ==
    ret.op \in {"evalPressureLRCIntegral", "evalEnergyLRCIntegral"}
       => (ret.val = Zero /\ ret.err = "none")

C9_Witness ==
    /\ ret.op = "evalEnergyLRCIntegral" /\ ret.val = Zero
    /\ \E i \in Evaluators :
          /\ ev[i].built /\ ev[i].lj2 = R(256)
          /\ out[i].force_divr \notin SlotInit

\* C10: needsDiameter and needsCharge are false; no call changes a
\* constructed evaluator or the parameter record; and every
\* evalForceAndEnergy returns what a call on an evaluator freshly
\* constructed from the same rsq, rcutsq and parameter record returns.
C10_NoStateChange ==
    [][ /\ ret'.op = "needsDiameter" => ret'.val = FALSE
        /\ ret'.op = "needsCharge" => ret'.val = FALSE
        /\ built \in {"default", "values"} => (params' = params /\ cfg' = cfg /\ built' = built)
        /\ \A i \in Evaluators :
             /\ ev[i].built => ev'[i] = ev[i]
             /\ EvalStep(i) =>
                  LET fresh == evalForceAndEnergy(
                                   EvaluatorPairLJLow(ev[i].rsq, ev[i].rcutsq, params),
                                   out[i].force_divr, out[i].pair_eng, ret'.shift)
                  IN  /\ ret'.val = fresh.ret
                      /\ out'[i] = [force_divr |-> fresh.force_divr, pair_eng |-> fresh.pair_eng]
                      /\ \A j \in Evaluators \ {i} : out'[j] = out[j] ]_vars

C10_Witness ==
    \E i \in Evaluators, j \in Evaluators :
        /\ i # j
        /\ LastEval(i) /\ ret.val = TRUE
        /\ ev[i] = ev[j]
        /\ ev[i].rsq = R(2) /\ ev[i].lj1 = R(16384)
        /\ out[i] = out[j]

====
